---- MODULE Spec2Model ----
(***************************************************************************)
(* Model of the embedded message queue of lmdb-table: the Queue engine     *)
(* (send / receive / ack) over one LMDB table keyed by a signed integer id *)
(* (key >= 0: live messages, key < 0: dead letters) and an optional dedup  *)
(* index table (dedup key -> enqueue timestamp).                           *)
(*                                                                         *)
(* The store is single-writer: beginWrite() fails while another write      *)
(* transaction of the process is still open.  A write transaction that a   *)
(* call neither commits nor aborts stays open until its handle is          *)
(* finalized by the runtime, which aborts it.                              *)
(*                                                                         *)
(* Below the engine, the library it is built on: Transaction (the guards   *)
(* of its get / put / del calls, commit / abort / reset / renew), the      *)
(* temporary transaction of a Table operation, and the registry of open    *)
(* Database handles used by openDB() and Database.close().                 *)
(***************************************************************************)
EXTENDS Integers, Sequences, FiniteSets, TLC

\* ---------------------------------------------------------------- bounds
MaxSends == 3        \* successful send() calls explored
MaxReturned == 3     \* receive() calls that return a message explored
MaxNow == 2001       \* last clock value explored (ms)
MaxKey == 4          \* highest key in the store at which a new process starts
MaxDeliveries == 2   \* highest numReceives at which a new process starts
MaxTxns == 2         \* Transaction objects the callers create
MaxHandles == 5      \* Database objects openDB() creates

\* ---------------------------------------------------- inputs of the model
Bodies == {"a", "b"}
DedupKeys == {"k"}
TickSteps == {1000}                \* clock advances between two calls (ms)
ReopenBodies == {"a"}             \* bodies sent when the queue is re-opened
RestartTickSteps == {600}          \* the same, for a sequence of processes
VisibilityTimeouts == {1}          \* options.visibilityTimeoutSecs
MaxReceivesOptions == {1}          \* options.maxReceives
LongBody == "long"                 \* stands for a body of 256 characters
KeySizeBodies == {"a", LongBody}
StringLengths == {255, 256}        \* key.length of the string keys
BufferLengths == {511, 512}        \* key.length of the Buffer keys
Values == {"v"}                    \* values put
Procs == {1, 2}                    \* callers of openDB()

\* ------------------------------------------------------ program constants
MsPerSec == 1000
MAX_KEY_SIZE == 511

\* -------------------------------------------------- JavaScript values
\* An optional value (undefined / null, or a value) is a set of at most one
\* element.
Undefined == {}
Some(v) == {v}
The(opt) == CHOOSE v \in opt : TRUE

\* JavaScript truthiness of an optional string.
TruthyStr(opt) == opt # Undefined /\ opt # Some("")

\* JavaScript truthiness of an optional number (a cursor key): null and 0
\* are both falsy.
TruthyKey(opt) == opt # Undefined /\ opt # Some(0)

\* The arguments of the send() calls explored: each body without a dedup key,
\* and one body with each dedup key.
SendInputs ==
  {<<body, Undefined>> : body \in Bodies}
    \cup {<<"a", Some(dedupKey)>> : dedupKey \in DedupKeys}

\* `dedupKey || body`
OrBody(dedupKey, body) == IF TruthyStr(dedupKey) THEN The(dedupKey) ELSE body

\* JSON.stringify(message): a property whose value is undefined is left out
\* of the text.  The text is modelled as the list of the properties written.
\* (sn is the serial number of the send() call that created the message: a
\* history tag that no operation reads.)
JSONstringify(m) ==
  IF m.dedupKey = Undefined
    THEN [id |-> m.id, enqueued |-> m.enqueued, received |-> m.received,
          numReceives |-> m.numReceives, body |-> m.body, sn |-> m.sn]
    ELSE [id |-> m.id, enqueued |-> m.enqueued, received |-> m.received,
          numReceives |-> m.numReceives, body |-> m.body,
          dedupKey |-> The(m.dedupKey), sn |-> m.sn]

\* JSON.parse(text): reading a property that the text does not have yields
\* undefined.
JSONparse(s) ==
  [id |-> s.id, enqueued |-> s.enqueued, received |-> s.received,
   numReceives |-> s.numReceives, body |-> s.body,
   dedupKey |-> IF "dedupKey" \in DOMAIN s THEN Some(s.dedupKey) ELSE Undefined,
   sn |-> s.sn]

\* ------------------------------------------------------------ the store
\* A table is a function from its keys to its values.
EmptyTable == [k \in {} |-> 0]
put(t, k, v) == [x \in (DOMAIN t) \cup {k} |-> IF x = k THEN v ELSE t[x]]
del(t, k) == [x \in (DOMAIN t) \ {k} |-> t[x]]
hasKey(t, k) == k \in DOMAIN t

Min(S) == CHOOSE x \in S : \A y \in S : x <= y
Max(S) == CHOOSE x \in S : \A y \in S : x >= y

\* Cursor positioning: the key found, or null.
goToLast(t) == IF DOMAIN t = {} THEN Undefined ELSE Some(Max(DOMAIN t))
goToRange(t, target) ==
  LET S == {k \in DOMAIN t : k >= target}
  IN IF S = {} THEN Undefined ELSE Some(Min(S))
goToNext(t, cur) ==
  LET S == {k \in DOMAIN t : k > cur}
  IN IF S = {} THEN Undefined ELSE Some(Min(S))

\* ------------------------------------------------------------------ keys
\* A key of the library is given by its type and its length (the bytes of
\* a Buffer, the UTF-16 code units of a string).
Keys ==
  {[type |-> "string", length |-> n] : n \in StringLengths}
    \cup {[type |-> "buffer", length |-> n] : n \in BufferLengths}

\* The key of the calls made on Transactions and Tables when the claim is
\* about their state: a string key within the size limit.
TxnKeys == {[type |-> "string", length |-> 255]}

\* s.length of the strings of the model
length(s) == IF s = LongBody THEN 256 ELSE IF s = "" THEN 0 ELSE 1
StringKey(s) == [type |-> "string", length |-> length(s)]

\* assertKeySize with the check of string keys left out.
assertKeySizeBufferOnly(key) ==
  IF key.type = "buffer" THEN ~(key.length > MAX_KEY_SIZE) ELSE TRUE

\* assertKeySize(key): TRUE when it returns, FALSE when it throws.
assertKeySize(key) ==
  IF key.type = "buffer" THEN ~(key.length > MAX_KEY_SIZE)
  ELSE IF key.type = "string" THEN ~(key.length * 2 > MAX_KEY_SIZE)
  ELSE TRUE

VARIABLES
  config,     \* QueueConfig: dedup, requireAck, visibilityTimeoutSecs, maxReceives
  queue,      \* Queue.queue: key -> JSON text of a Message
  index,      \* Queue.index: dedup key -> timestamp (used when config.dedup)
  now,        \* Date.now()
  writeTxn,   \* TRUE while a write transaction of the process is open
  call,       \* the last call made: [op, body, dedupKey, message]
  ret,        \* its outcome: [kind, message]
  held,       \* the Message copies receive() has returned to callers
  issued,     \* history: [id, body] of the successful send() calls, in order
  returned,   \* history: [id, sn] of the messages returned by receive(), in order
  noRetry,    \* history: every receive() so far found no delivered message live
  txns,       \* the Transaction objects of the callers, in order of creation
  data,       \* the committed content of the table the Transactions work on
  tcall,      \* the last Transaction / Table call and its outcome
  dbs,        \* the registry: the Database registered for the path, if any
  envs,       \* the Database objects created for the path: "open" / "closed"
  pc          \* where each caller of openDB() is: "idle" / "mkdir"

libvars == <<txns, data, tcall, dbs, envs, pc>>

vars == <<config, queue, index, now, writeTxn, call, ret, held, issued,
          returned, noRetry, libvars>>

Call(op, body, dedupKey, message) ==
  [op |-> op, body |-> body, dedupKey |-> dedupKey, message |-> message]
Ret(kind, message) == [kind |-> kind, message |-> message]

\* The outcome of a Transaction or Table call: txn is the index of the
\* Transaction it was made on or given (0: none), reached tells whether the
\* call got as far as the store's own transaction, useTxn is the temporary
\* Transaction a Table call created, as the call left it.
TCall(op, txn, key, outcome, reached, useTxn) ==
  [op |-> op, txn |-> txn, key |-> key, outcome |-> outcome,
   reached |-> reached, useTxn |-> useTxn]

\* No Transaction has been created and no Database opened.
LibInit ==
  /\ txns = <<>>
  /\ data = EmptyTable
  /\ tcall = TCall("none", 0, Undefined, "ok", FALSE, Undefined)
  /\ dbs = Undefined
  /\ envs = <<>>
  /\ pc = [p \in Procs |-> "idle"]

Init ==
  /\ config \in [dedup : BOOLEAN, requireAck : BOOLEAN,
                 visibilityTimeoutSecs : VisibilityTimeouts,
                 maxReceives : MaxReceivesOptions]
  /\ queue = EmptyTable
  /\ index = EmptyTable
  /\ now = 1
  /\ writeTxn = FALSE
  /\ call = Call("new", Undefined, Undefined, Undefined)
  /\ ret = Ret("void", Undefined)
  /\ held = {}
  /\ issued = <<>>
  /\ returned = <<>>
  /\ noRetry = TRUE
  /\ LibInit

\* Date.now() advances between two calls.
advance(d) ==
  /\ now + d <= MaxNow /\ now' = now + d
  /\ call' = Call("tick", Undefined, Undefined, Undefined)
  /\ ret' = Ret("void", Undefined)
  /\ UNCHANGED <<config, queue, index, writeTxn, held, issued, returned, noRetry,
                libvars>>

Tick == \E d \in TickSteps : advance(d)

\* db.beginWrite() of a call made while a write transaction is still open:
\* the store refuses a second writer and the call throws before it has read
\* or written anything.
beginWriteFails(c) ==
  /\ writeTxn
  /\ call' = c
  /\ ret' = Ret("throw", Undefined)
  /\ UNCHANGED <<config, queue, index, now, writeTxn, held, issued, returned, noRetry,
                libvars>>

\* The handle of a write transaction that was left open is finalized: the
\* store aborts the transaction (none of its writes was committed).
finalizeTxn ==
  /\ writeTxn
  /\ writeTxn' = FALSE
  /\ call' = Call("finalize", Undefined, Undefined, Undefined)
  /\ ret' = Ret("void", Undefined)
  /\ UNCHANGED <<config, queue, index, now, held, issued, returned, noRetry,
                libvars>>

\* Queue.send(body, dedupKey)
send(body, dedupKey) ==
  LET c == Call("send", Some(body), dedupKey, Undefined) IN
  \/ beginWriteFails(c)
  \/ /\ ~writeTxn
     /\ call' = c
     /\ IF config.dedup /\ TruthyStr(dedupKey)
          THEN \* throw new Error(...): the transaction stays open
               /\ ret' = Ret("throw", Undefined)
               /\ writeTxn' = TRUE
               /\ UNCHANGED <<queue, index, issued>>
          ELSE IF config.dedup /\ ~assertKeySize(StringKey(OrBody(dedupKey, body)))
          THEN \* index.getString(key) throws: the transaction stays open
               /\ ret' = Ret("throw", Undefined)
               /\ writeTxn' = TRUE
               /\ UNCHANGED <<queue, index, issued>>
          ELSE IF config.dedup /\ hasKey(index, OrBody(dedupKey, body))
          THEN \* return false: the transaction stays open
               /\ ret' = Ret("false", Undefined)
               /\ writeTxn' = TRUE
               /\ UNCHANGED <<queue, index, issued>>
          ELSE LET key == IF TruthyKey(goToLast(queue))
                            THEN The(goToLast(queue)) ELSE 0
                   id == key + 1
                   message == [id |-> id, enqueued |-> now, received |-> 0,
                               numReceives |-> 0, body |-> body,
                               dedupKey |-> dedupKey, sn |-> Len(issued) + 1]
               IN /\ Len(issued) < MaxSends
                  /\ queue' = put(queue, id, JSONstringify(message))
                  /\ index' = IF config.dedup
                                THEN put(index, OrBody(dedupKey, body), now)
                                ELSE index
                  /\ issued' = Append(issued, [id |-> id, body |-> body])
                  /\ writeTxn' = FALSE
                  /\ ret' = Ret("true", Undefined)
     /\ UNCHANGED <<config, now, held, returned, noRetry,
                   libvars>>

\* deadletter with the deletion of the live record left out.
deadletterKeepsLive(q, message) ==
  LET moved == [message EXCEPT !.id = -message.id]
  IN put(q, moved.id, JSONstringify(moved))

\* The DLQ transition of receive(): delete the record at message.id, negate
\* message.id and store the record at the negated id.
deadletter(q, message) ==
  LET moved == [message EXCEPT !.id = -message.id]
  IN put(del(q, message.id), moved.id, JSONstringify(moved))

\* The while loop of receive(), entered with the cursor at key k and
\* message = JSON.parse(value at k).  Each pass classifies message, then
\* advances the cursor whatever the classification was, returns null when
\* the cursor is at the end, and otherwise loads the record under the
\* cursor into message.  The result is the table as written by the loop and
\* the key of the message the loop ends with (null: the call returns null).
RECURSIVE receiveLoop(_, _, _)
receiveLoop(q, k, t) ==
  LET message == JSONparse(q[k])
      expired == /\ message.received # 0
                 /\ t - message.received > config.visibilityTimeoutSecs * MsPerSec
      dead == expired /\ message.numReceives >= config.maxReceives
      valid == message.received = 0 \/ (expired /\ ~dead)
      q1 == IF dead THEN deadletter(q, message) ELSE q
      key == goToNext(q1, k)
  IN IF ~TruthyKey(key) THEN [queue |-> q1, key |-> Undefined]
     ELSE IF valid THEN [queue |-> q1, key |-> key]
     ELSE receiveLoop(q1, The(key), t)

\* receiveAutoAck with the deletion of the dedup index entry left out.
receiveAutoAckKeepsEntry(key) ==
  LET message == JSONparse(queue[key])
      out == [message EXCEPT !.numReceives = @ + 1, !.received = now]
  IN /\ Len(returned) < MaxReturned
     /\ index' = index
     /\ queue' = del(queue, message.id)
     /\ ret' = Ret("message", Some(out))
     /\ held' = held \cup {out}
     /\ returned' = Append(returned, [id |-> out.id, sn |-> out.sn])
     /\ UNCHANGED writeTxn

\* receive() with requireAck = false, the cursor at the first key >= 0:
\* delete the dedup index entry and the record, return the record with
\* numReceives + 1 and received = now.
receiveAutoAck(key) ==
  LET message == JSONparse(queue[key])
      dedupKey == OrBody(message.dedupKey, message.body)
      out == [message EXCEPT !.numReceives = @ + 1, !.received = now]
  IN IF config.dedup /\ ~hasKey(index, dedupKey)
       THEN \* index.del() of a key that is not there throws: no commit
            /\ ret' = Ret("throw", Undefined)
            /\ writeTxn' = TRUE
            /\ UNCHANGED <<queue, index, held, returned>>
       ELSE /\ Len(returned) < MaxReturned
            /\ index' = IF config.dedup THEN del(index, dedupKey) ELSE index
            /\ queue' = del(queue, message.id)
            /\ ret' = Ret("message", Some(out))
            /\ held' = held \cup {out}
            /\ returned' = Append(returned, [id |-> out.id, sn |-> out.sn])
            /\ UNCHANGED writeTxn

\* receive() with requireAck = true, the cursor at the first key >= 0: run
\* the loop, then store the message it ends with under its id with
\* numReceives + 1 and received = now, and return it.
receiveLease(key) ==
  LET r == receiveLoop(queue, key, now)
  IN IF r.key = Undefined
       THEN \* txn.commit(); return null
            /\ queue' = r.queue
            /\ ret' = Ret("null", Undefined)
            /\ UNCHANGED <<index, writeTxn, held, returned>>
       ELSE LET message == JSONparse(r.queue[The(r.key)])
                out == [message EXCEPT !.numReceives = @ + 1, !.received = now]
            IN /\ Len(returned) < MaxReturned
               /\ queue' = put(r.queue, out.id, JSONstringify(out))
               /\ ret' = Ret("message", Some(out))
               /\ held' = held \cup {out}
               /\ returned' = Append(returned, [id |-> out.id, sn |-> out.sn])
               /\ UNCHANGED <<index, writeTxn>>

\* Queue.receive()
receive ==
  LET c == Call("receive", Undefined, Undefined, Undefined)
      key == goToRange(queue, 0)
  IN
  \/ beginWriteFails(c)
  \/ /\ ~writeTxn
     /\ call' = c
     /\ noRetry' = (noRetry /\ \A k \in DOMAIN queue :
                                 k >= 0 => JSONparse(queue[k]).received = 0)
     /\ IF ~TruthyKey(key)
          THEN \* txn.abort(); return null
               /\ ret' = Ret("null", Undefined)
               /\ UNCHANGED <<queue, index, writeTxn, held, returned>>
          ELSE IF ~config.requireAck
                 THEN receiveAutoAck(The(key))
                 ELSE receiveLease(The(key))
     /\ UNCHANGED <<config, now, issued,
                   libvars>>

\* Queue.ack(message)
ack(message) ==
  LET c == Call("ack", Undefined, Undefined, Some(message))
      dedupKey == OrBody(message.dedupKey, message.body)
  IN
  \/ beginWriteFails(c)
  \/ /\ ~writeTxn
     /\ call' = c
     /\ IF \/ ~hasKey(queue, message.id)
           \/ config.dedup /\ ~hasKey(index, dedupKey)
          THEN \* del() of a key that is not there throws: no commit
               /\ ret' = Ret("throw", Undefined)
               /\ writeTxn' = TRUE
               /\ UNCHANGED <<queue, index>>
          ELSE /\ queue' = del(queue, message.id)
               /\ index' = IF config.dedup THEN del(index, dedupKey) ELSE index
               /\ ret' = Ret("void", Undefined)
               /\ UNCHANGED writeTxn
     /\ UNCHANGED <<config, now, held, issued, returned, noRetry,
                   libvars>>

Next ==
  \/ Tick
  \/ finalizeTxn
  \/ \E input \in SendInputs : send(input[1], input[2])
  \/ receive
  \/ \E message \in held : ack(message)

Spec == Init /\ [][Next]_vars

\* Consumers that never acknowledge: receive() is called again and again
\* while the clock advances, and no ack() is made.
NextNoAck ==
  \/ Tick
  \/ finalizeTxn
  \/ \E input \in SendInputs : send(input[1], input[2])
  \/ receive

FairSpec ==
  Init /\ [][NextNoAck]_vars /\ WF_vars(Tick) /\ WF_vars(receive)

\* new Queue(db, options) over the tables of an existing queue of the same
\* name, with another requireAck option: the constructor opens the tables
\* as they are, and the calls that follow are made on the new object.
construct(requireAck) ==
  /\ config' = [config EXCEPT !.requireAck = requireAck]
  /\ call' = Call("new", Undefined, Undefined, Undefined)
  /\ ret' = Ret("void", Undefined)
  /\ UNCHANGED <<queue, index, now, writeTxn, held, issued, returned, noRetry,
                libvars>>

\* Two Queue objects on the same tables, one with requireAck and one
\* without.
NextReopen ==
  \/ Tick
  \/ finalizeTxn
  \/ \E body \in ReopenBodies : send(body, Undefined)
  \/ receive
  \/ \E message \in held : ack(message)
  \/ \E requireAck \in BOOLEAN : construct(requireAck)

SpecReopen == Init /\ [][NextReopen]_vars

\* The process ends and a new process constructs a Queue over the tables
\* the old one left in the store: the store aborts a write transaction
\* that was still open, and the callers' copies of messages are gone with
\* the old process (as are the histories kept of it).
restart(requireAck) ==
  /\ \A k \in DOMAIN queue :
       k <= MaxKey /\ JSONparse(queue[k]).numReceives <= MaxDeliveries
  /\ config' = [config EXCEPT !.requireAck = requireAck]
  /\ writeTxn' = FALSE
  /\ held' = {}
  /\ issued' = <<>>
  /\ returned' = <<>>
  /\ noRetry' = TRUE
  /\ call' = Call("new", Undefined, Undefined, Undefined)
  /\ ret' = Ret("void", Undefined)
  /\ UNCHANGED <<queue, index, now,
                libvars>>

\* A queue without dedup, with maxReceives = 2 and a visibility timeout of
\* 0 seconds (a delivered message is leased for the millisecond of its
\* delivery), used by a sequence of processes.
InitRestart ==
  /\ config \in [dedup : {FALSE}, requireAck : BOOLEAN,
                 visibilityTimeoutSecs : {0}, maxReceives : {2}]
  /\ queue = EmptyTable
  /\ index = EmptyTable
  /\ now = 1
  /\ writeTxn = FALSE
  /\ call = Call("new", Undefined, Undefined, Undefined)
  /\ ret = Ret("void", Undefined)
  /\ held = {}
  /\ issued = <<>>
  /\ returned = <<>>
  /\ noRetry = TRUE
  /\ LibInit

NextRestart ==
  \/ \E d \in RestartTickSteps : advance(d)
  \/ (\A k \in DOMAIN queue : k < MaxKey) /\ send("a", Undefined)
  \/ (\A k \in DOMAIN queue : JSONparse(queue[k]).numReceives <= MaxDeliveries)
       /\ receive
  \/ \E requireAck \in BOOLEAN : restart(requireAck)

SpecRestart == InitRestart /\ [][NextRestart]_vars

\* ------------------------------------------------------- the library
queuevars == <<config, queue, index, now, writeTxn, call, ret, held, issued,
               returned, noRetry>>

\* new Transaction(db, {writeable}): the store's transaction is begun on the
\* committed content.  The field txn is the state of the store's own
\* transaction: "active", "reset", "committed" or "aborted".
Transaction(writeable) ==
  [isWriteable |-> writeable, isClosed |-> FALSE, isReset |-> FALSE,
   txn |-> "active", view |-> data]

\* The store has one writer: a write transaction is open.
WriterOpen ==
  \E j \in 1..Len(txns) :
    txns[j].isWriteable /\ txns[j].txn \in {"active", "reset"}

\* assertRead that looks at isClosed only.
assertReadIgnoresReset(t, key) ==
  assertKeySize(key) /\ ~t.isClosed

\* Transaction.assertRead(key): TRUE when it returns, FALSE when it throws.
assertRead(t, key) ==
  assertKeySize(key) /\ ~(t.isReset \/ t.isClosed)

\* Transaction.assertWrite(key)
assertWrite(t, key) ==
  assertRead(t, key) /\ t.isWriteable

Result(t, outcome, reached) ==
  [txn |-> t, outcome |-> outcome, reached |-> reached]

\* Transaction.getString / getBinary / getNumber / getBoolean /
\* getStringUnsafe / getBinaryUnsafe: assertRead, then the store's get.
get(t, key) ==
  IF assertRead(t, key) THEN Result(t, "ok", TRUE)
  ELSE Result(t, "error", FALSE)

\* Transaction.putString / putBinary / putNumber / putBoolean: assertWrite,
\* then the store's put.
putValue(t, key, value) ==
  IF assertWrite(t, key)
    THEN Result([t EXCEPT !.view = put(@, key, value)], "ok", TRUE)
    ELSE Result(t, "error", FALSE)

\* Transaction.del: assertWrite, then the store's del, which throws when
\* the key is not there.
delKey(t, key) ==
  IF assertWrite(t, key)
    THEN IF hasKey(t.view, key)
           THEN Result([t EXCEPT !.view = del(@, key)], "ok", TRUE)
           ELSE Result(t, "error", TRUE)
    ELSE Result(t, "error", FALSE)

Kinds == {"get", "put", "del"}

\* The call useTxn.<kind>(table, key, ...) on the Transaction t.
callback(kind, t, key, value) ==
  IF kind = "get" THEN get(t, key)
  ELSE IF kind = "put" THEN putValue(t, key, value)
  ELSE delKey(t, key)

\* The store's commit / abort of a transaction that is not closed.
committed(t) == [t EXCEPT !.txn = "committed", !.isClosed = TRUE]
aborted(t) == [t EXCEPT !.txn = "aborted", !.isClosed = TRUE]

\* db.beginRead() / db.beginWrite()
beginTxn(writeable) ==
  LET op == IF writeable THEN "beginWrite" ELSE "beginRead" IN
  /\ Len(txns) < MaxTxns
  /\ IF writeable /\ WriterOpen
       THEN \* the store refuses a second writer
            /\ tcall' = TCall(op, 0, Undefined, "error", FALSE, Undefined)
            /\ UNCHANGED txns
       ELSE /\ txns' = Append(txns, Transaction(writeable))
            /\ tcall' = TCall(op, Len(txns) + 1, Undefined, "ok", TRUE, Undefined)
  /\ UNCHANGED <<data, dbs, envs, pc, queuevars>>

\* txn.get*(table, key), txn.put*(table, key, value), txn.del(table, key)
\* on the i-th Transaction.
txnCall(kind, i, key, value) ==
  LET r == callback(kind, txns[i], key, value) IN
  /\ txns' = [txns EXCEPT ![i] = r.txn]
  /\ tcall' = TCall(kind, i, Some(key), r.outcome, r.reached, Undefined)
  /\ UNCHANGED <<data, dbs, envs, pc, queuevars>>

\* Transaction.commit(): the store's commit throws on a transaction that is
\* closed, and isClosed is set after it.
commit(i) ==
  LET t == txns[i] IN
  /\ IF t.txn \in {"active", "reset"}
       THEN /\ txns' = [txns EXCEPT ![i] = committed(t)]
            /\ data' = IF t.isWriteable THEN t.view ELSE data
            /\ tcall' = TCall("commit", i, Undefined, "ok", TRUE, Undefined)
       ELSE /\ tcall' = TCall("commit", i, Undefined, "error", TRUE, Undefined)
            /\ UNCHANGED <<txns, data>>
  /\ UNCHANGED <<dbs, envs, pc, queuevars>>

\* Transaction.abort()
abort(i) ==
  LET t == txns[i] IN
  /\ IF t.txn \in {"active", "reset"}
       THEN /\ txns' = [txns EXCEPT ![i] = aborted(t)]
            /\ tcall' = TCall("abort", i, Undefined, "ok", TRUE, Undefined)
       ELSE /\ tcall' = TCall("abort", i, Undefined, "error", TRUE, Undefined)
            /\ UNCHANGED txns
  /\ UNCHANGED <<data, dbs, envs, pc, queuevars>>

\* Transaction.reset(), made on a read-only transaction (the store defines
\* reset and renew for read-only transactions).
reset(i) ==
  LET t == txns[i] IN
  /\ ~t.isWriteable
  /\ IF t.txn \in {"active", "reset"}
       THEN /\ txns' = [txns EXCEPT ![i] = [t EXCEPT !.txn = "reset",
                                                     !.isReset = TRUE]]
            /\ tcall' = TCall("reset", i, Undefined, "ok", TRUE, Undefined)
       ELSE /\ tcall' = TCall("reset", i, Undefined, "error", TRUE, Undefined)
            /\ UNCHANGED txns
  /\ UNCHANGED <<data, dbs, envs, pc, queuevars>>

\* Transaction.renew(), made on a read-only transaction: the store's renew
\* throws unless the transaction has been reset, and gives the transaction
\* the committed content of the moment.
renew(i) ==
  LET t == txns[i] IN
  /\ ~t.isWriteable
  /\ IF t.txn = "reset"
       THEN /\ txns' = [txns EXCEPT ![i] = [t EXCEPT !.txn = "active",
                                                     !.isReset = FALSE,
                                                     !.view = data]]
            /\ tcall' = TCall("renew", i, Undefined, "ok", TRUE, Undefined)
       ELSE /\ tcall' = TCall("renew", i, Undefined, "error", TRUE, Undefined)
            /\ UNCHANGED txns
  /\ UNCHANGED <<data, dbs, envs, pc, queuevars>>

UseResult(ts, d, outcome, reached, useTxn) ==
  [txns |-> ts, data |-> d, outcome |-> outcome, reached |-> reached,
   useTxn |-> useTxn]

\* useTransaction that closes the transaction of the caller as it closes
\* a temporary one.
useTransactionClosesSupplied(kind, key, value, i) ==
  LET writeable == kind # "get"
      t == IF i # 0 THEN txns[i] ELSE Transaction(writeable)
      r == callback(kind, t, key, value)
      useTxn == IF r.txn.isClosed THEN r.txn
                ELSE IF r.outcome = "ok" /\ r.txn.isWriteable
                  THEN committed(r.txn)
                ELSE aborted(r.txn)
      d == IF useTxn.txn = "committed" /\ useTxn.isWriteable
             THEN useTxn.view ELSE data
  IN IF i # 0
       THEN UseResult([txns EXCEPT ![i] = useTxn], d, r.outcome, r.reached,
                      Undefined)
     ELSE IF writeable /\ WriterOpen
       THEN UseResult(txns, data, "error", FALSE, Undefined)
     ELSE UseResult(txns, d, r.outcome, r.reached, Some(useTxn))

\* Table.useTransaction(callback, txn, options), the callback being the
\* call of kind on useTxn, and i the Transaction the caller supplies
\* (0: none).  Without one, a temporary Transaction is created (writeable
\* for put and del), and after the callback it is committed (writeable and
\* the callback returned) or aborted (read-only, or the callback threw),
\* unless it is closed already.
useTransaction(kind, key, value, i) ==
  IF i # 0
    THEN LET r == callback(kind, txns[i], key, value)
         IN UseResult([txns EXCEPT ![i] = r.txn], data, r.outcome, r.reached,
                      Undefined)
  ELSE IF kind # "get" /\ WriterOpen
    THEN \* the store refuses a second writer: no Transaction is created
         UseResult(txns, data, "error", FALSE, Undefined)
  ELSE LET r == callback(kind, Transaction(kind # "get"), key, value)
           useTxn == IF r.txn.isClosed THEN r.txn
                     ELSE IF r.outcome = "ok" /\ r.txn.isWriteable
                       THEN committed(r.txn)
                     ELSE aborted(r.txn)
       IN UseResult(txns,
                    IF useTxn.txn = "committed" /\ useTxn.isWriteable
                      THEN useTxn.view ELSE data,
                    r.outcome, r.reached, Some(useTxn))

TableOp(kind) ==
  IF kind = "get" THEN "Table.get"
  ELSE IF kind = "put" THEN "Table.put" ELSE "Table.del"

\* table.get*(key, txn), table.put*(key, value, txn), table.del(key, txn)
tableCall(kind, key, value, i) ==
  LET u == useTransaction(kind, key, value, i) IN
  /\ txns' = u.txns
  /\ data' = u.data
  /\ tcall' = TCall(TableOp(kind), i, Some(key), u.outcome, u.reached, u.useTxn)
  /\ UNCHANGED <<dbs, envs, pc, queuevars>>

NextTxn ==
  \/ \E writeable \in BOOLEAN : beginTxn(writeable)
  \/ \E kind \in Kinds, i \in 1..Len(txns), key \in TxnKeys, value \in Values :
       txnCall(kind, i, key, value)
  \/ \E i \in 1..Len(txns) : commit(i)
  \/ \E i \in 1..Len(txns) : abort(i)
  \/ \E i \in 1..Len(txns) : reset(i)
  \/ \E i \in 1..Len(txns) : renew(i)
  \/ \E kind \in Kinds, i \in 0..Len(txns), key \in TxnKeys, value \in Values :
       tableCall(kind, key, value, i)

\* The queue beside the Transactions is not used.
InitTxn == Init /\ ~config.dedup /\ config.requireAck

SpecTxn == InitTxn /\ [][NextTxn]_vars

\* A queue with dedup, sent bodies of every length, beside Transactions
\* used with keys of every length.
InitKeySize == Init /\ config.dedup /\ config.requireAck

NextKeySize ==
  \/ \E writeable \in BOOLEAN : beginTxn(writeable)
  \/ \E kind \in Kinds, i \in 1..Len(txns), key \in Keys, value \in Values :
       txnCall(kind, i, key, value)
  \/ \E i \in 1..Len(txns) : commit(i)
  \/ \E body \in KeySizeBodies : send(body, Undefined)
  \/ finalizeTxn

SpecKeySize == InitKeySize /\ [][NextKeySize]_vars

\* openDB(options) up to its await: close the Database registered for the
\* path, if there is one (env.close() throws when the Env is closed
\* already, and openDB rejects), then suspend in mkdir().
openDB_close(p) ==
  /\ pc[p] = "idle"
  /\ Len(envs) + Cardinality({q \in Procs : pc[q] = "mkdir"}) < MaxHandles
  /\ IF dbs = Undefined
       THEN /\ pc' = [pc EXCEPT ![p] = "mkdir"]
            /\ UNCHANGED <<dbs, envs>>
     ELSE IF envs[The(dbs)] = "open"
       THEN /\ envs' = [envs EXCEPT ![The(dbs)] = "closed"]
            /\ dbs' = Undefined
            /\ pc' = [pc EXCEPT ![p] = "mkdir"]
     ELSE UNCHANGED <<dbs, envs, pc>>
  /\ UNCHANGED <<txns, data, tcall, queuevars>>

\* openDB(options) after its await: new Database(options), db.open()
openDB_open(p) ==
  /\ pc[p] = "mkdir"
  /\ envs' = Append(envs, "open")
  /\ dbs' = Some(Len(envs) + 1)
  /\ pc' = [pc EXCEPT ![p] = "idle"]
  /\ UNCHANGED <<txns, data, tcall, queuevars>>

\* Database.close() on the h-th Database: env.close(), which throws when
\* the Env is closed already, then delete dbs[path].
close(h) ==
  /\ envs[h] = "open"
  /\ envs' = [envs EXCEPT ![h] = "closed"]
  /\ dbs' = Undefined
  /\ UNCHANGED <<pc, txns, data, tcall, queuevars>>

NextDB ==
  \/ \E p \in Procs : openDB_close(p)
  \/ \E p \in Procs : openDB_open(p)
  \/ \E h \in 1..Len(envs) : close(h)

InitDB == Init /\ ~config.dedup /\ config.requireAck

SpecDB == InitDB /\ [][NextDB]_vars

\* ------------------------------------------------------------------ claims
\* The live partition (key >= 0) and the dead-letter partition (key < 0).
LiveKeys(q) == {k \in DOMAIN q : k >= 0}
DeadKeys(q) == {k \in DOMAIN q : k < 0}
LiveMessages(q) == {JSONparse(q[k]) : k \in LiveKeys(q)}

\* The lease states of a live message at time t.
Available(m) == m.received = 0
Leased(m, t) ==
  m.received > 0 /\ t - m.received <= config.visibilityTimeoutSecs * MsPerSec
Expired(m, t) ==
  m.received > 0 /\ t - m.received > config.visibilityTimeoutSecs * MsPerSec
Exhausted(m, t) == Expired(m, t) /\ m.numReceives >= config.maxReceives
Selectable(m, t) ==
  Available(m) \/ (Expired(m, t) /\ m.numReceives < config.maxReceives)

\* A step is a receive() call that began its transaction.
ReceiveStep == call'.op = "receive" /\ ret'.kind # "throw"
Delivered(m, t) == [m EXCEPT !.numReceives = @ + 1, !.received = t]

\* C1: with requireAck, receive() returns the lowest-id selectable live
\* message with numReceives + 1 and received = now and stores it under the
\* same id; it returns absent only when no live message is selectable.
C1_ReceiveReturnsLowestSelectable ==
  [][(ReceiveStep /\ config.requireAck) =>
       LET sel == {m \in LiveMessages(queue) : Selectable(m, now)}
       IN IF sel = {}
            THEN ret'.kind = "null"
            ELSE LET m == CHOOSE x \in sel : \A y \in sel : x.id <= y.id
                 IN /\ ret' = Ret("message", Some(Delivered(m, now)))
                    /\ hasKey(queue', m.id)
                    /\ JSONparse(queue'[m.id]) = Delivered(m, now)]_vars

\* C2: with requireAck, receive() never returns a message that is Leased at
\* the time of the call, and leaves its stored record unchanged.
C2_LeasedNeverReturned ==
  [][(ReceiveStep /\ config.requireAck) =>
       \A k \in LiveKeys(queue) :
         Leased(JSONparse(queue[k]), now) =>
           /\ ret'.message # Some(Delivered(JSONparse(queue[k]), now))
           /\ hasKey(queue', k) /\ queue'[k] = queue[k]]_vars

\* C3: a message whose lease has expired with numReceives >= maxReceives is
\* not returned by receive(); the receive() whose scan reaches it (no live
\* message of lower id is selectable) moves it from key id to key -id.
C3_ExhaustedIsDeadLettered ==
  [][(ReceiveStep /\ config.requireAck) =>
       \A k \in LiveKeys(queue) :
         LET m == JSONparse(queue[k])
         IN Exhausted(m, now) =>
              /\ (ret'.kind = "message" => The(ret'.message).sn # m.sn)
              /\ (\A j \in LiveKeys(queue) :
                     j < k => ~Selectable(JSONparse(queue[j]), now))
                   => /\ ~hasKey(queue', k)
                      /\ hasKey(queue', -k)
                      /\ JSONparse(queue'[-k]) = [m EXCEPT !.id = -k]]_vars

\* The serial numbers of the messages receive() has returned so far.
ReturnedSns == {returned[i].sn : i \in 1..Len(returned)}

\* C4: at-least-once delivery.  When receive() is called repeatedly, time
\* advances and nothing is acked, every message accepted by send() is
\* eventually returned by a receive() (as long as the store is not locked by
\* an open write transaction and the deliveries explored are not used up),
\* and no message is dead-lettered without having been returned.
C4_AtLeastOnce ==
  /\ \A sn \in 1..MaxSends :
       (config.requireAck /\ Len(issued) >= sn)
         ~> (sn \in ReturnedSns \/ Len(returned) = MaxReturned \/ writeTxn)
  /\ [](\A k \in DeadKeys(queue) : JSONparse(queue[k]).sn \in ReturnedSns)

\* With requireAck, the message of the first send() is never returned and no
\* record is ever dead-lettered: the record at the lowest live key is always
\* Available, and receive() returns the record after it.
FirstSentNeverReturned ==
  config.requireAck => (1 \notin ReturnedSns /\ DeadKeys(queue) = {})

\* C5: under no-retry conditions the ids returned by successive receive()
\* calls are strictly ascending and follow the order of the sends, with no
\* sent message skipped.
C5_NoRetryOrder ==
  noRetry =>
    /\ \A i, j \in 1..Len(returned) : i < j => returned[i].id < returned[j].id
    /\ \A i \in 1..Len(returned) :
         \A sn \in 1..(returned[i].sn - 1) :
           \E j \in 1..(i - 1) : returned[j].sn = sn

\* C10: the ids assigned by successive successful send() calls are strictly
\* increasing; no id is assigned twice.
C10_IdsStrictlyIncreasing ==
  \A i, j \in 1..Len(issued) : i < j => issued[i].id < issued[j].id

\* A step is the call send(body) without a dedup key.
SendStep(body) ==
  call'.op = "send" /\ call'.body = Some(body) /\ call'.dedupKey = Undefined
\* A step is the call ack(m).
AckStep(m) == call'.op = "ack" /\ call'.message = Some(m)
\* `dedupKey ?? body`
KeyOf(m) == IF m.dedupKey # Undefined THEN The(m.dedupKey) ELSE m.body
\* q1 is q with the one record r added under a new key >= 0.
AddsOneLive(q, q1, body) ==
  \E id \in DOMAIN q1 :
    /\ id >= 0 /\ ~hasKey(q, id)
    /\ DOMAIN q1 = DOMAIN q \cup {id}
    /\ JSONparse(q1[id]).body = body
    /\ \A k \in DOMAIN q : q1[k] = q[k]
\* t1 is t with an entry added under the new key.
AddsOneEntry(t, t1, key) ==
  /\ ~hasKey(t, key)
  /\ DOMAIN t1 = DOMAIN t \cup {key}
  /\ \A k \in DOMAIN t : t1[k] = t[k]

\* C6: on a dedup-enabled queue the first send(B) returns true and adds
\* exactly one live message and one index entry for B; a repeated send(B)
\* while the message of the earlier send(B) is still live returns false and
\* leaves the message store and the dedup index unchanged.
C6_DedupSend ==
  [][\A B \in Bodies :
       (config.dedup /\ SendStep(B)) =>
         /\ (\A i \in 1..Len(issued) : issued[i].body # B) =>
              /\ ret'.kind = "true"
              /\ AddsOneLive(queue, queue', B)
              /\ AddsOneEntry(index, index', B)
         /\ (\E m \in LiveMessages(queue) : m.body = B) =>
              /\ ret'.kind = "false"
              /\ queue' = queue
              /\ index' = index]_vars

\* m is a copy of the record that is live at key m.id.
LiveCopy(m) ==
  m.id >= 0 /\ hasKey(queue, m.id) /\ JSONparse(queue[m.id]).sn = m.sn

\* C7: ack(m) for a message m that is live at m.id removes exactly the
\* record at key m.id and, with dedup, exactly the index entry for
\* m.dedupKey ?? m.body, and nothing else; a following send with the same
\* dedup key returns true.
C7_AckRemovesExactly ==
  [][/\ \A m \in held :
          (AckStep(m) /\ LiveCopy(m)) =>
            /\ queue' = del(queue, m.id)
            /\ IF config.dedup
                 THEN hasKey(index, KeyOf(m)) /\ index' = del(index, KeyOf(m))
                 ELSE index' = index
     /\ \A m \in held, B \in Bodies :
          (/\ config.dedup /\ call = Call("ack", Undefined, Undefined, Some(m))
           /\ ret.kind = "void" /\ KeyOf(m) = B /\ SendStep(B))
            => ret'.kind = "true"]_vars

\* C8: ack(m) for a copy m whose original record is no longer in the store
\* changes neither the message store nor the dedup index.
C8_AckIdempotent ==
  [][\A m \in held :
       (AckStep(m) /\ \A k \in DOMAIN queue : JSONparse(queue[k]).sn # m.sn)
         => queue' = queue /\ index' = index]_vars

\* C9: with requireAck = false, a receive() that returns m leaves no record
\* at key m.id nor at key -m.id, removes the dedup index entry of m and
\* nothing else, and m is the stored record with numReceives + 1 and
\* received = now.
C9_AutoAckRemoves ==
  [][(call'.op = "receive" /\ ~config.requireAck /\ ret'.kind = "message") =>
       LET m == The(ret'.message)
       IN /\ hasKey(queue, m.id)
          /\ m = Delivered(JSONparse(queue[m.id]), now)
          /\ ~hasKey(queue', m.id) /\ ~hasKey(queue', -m.id)
          /\ queue' = del(queue, m.id)
          /\ IF config.dedup
               THEN /\ hasKey(index, KeyOf(m)) /\ ~hasKey(index', KeyOf(m))
                    /\ index' = del(index, KeyOf(m))
               ELSE index' = index]_vars

\* A receive() with requireAck = false has just returned a message of a
\* dedup-enabled queue that holds another message.
C9_Witness ==
  /\ call.op = "receive" /\ ~config.requireAck /\ config.dedup
  /\ ret.kind = "message"
  /\ LiveKeys(queue) # {}

\* C11: on a dedup-enabled queue at most one live message exists per dedup
\* key (dedupKey ?? body), and every live message has its dedup key in the
\* dedup index.
C11_DedupIndexInvariant ==
  config.dedup =>
    /\ \A m1, m2 \in LiveMessages(queue) :
         KeyOf(m1) = KeyOf(m2) => m1 = m2
    /\ \A m \in LiveMessages(queue) : hasKey(index, KeyOf(m))

\* C12: on a dedup-enabled queue send(body, dedupKey) with an explicit
\* dedupKey uses key = dedupKey: it returns true and stores the message and
\* the index entry when the key is not in the index, returns false when it
\* is, and does not fail because a dedupKey was supplied.
C12_ExplicitDedupKey ==
  [][\A body \in Bodies, dedupKey \in DedupKeys :
       (/\ config.dedup /\ ~writeTxn
        /\ call' = Call("send", Some(body), Some(dedupKey), Undefined)) =>
         IF hasKey(index, dedupKey)
           THEN ret'.kind = "false" /\ queue' = queue /\ index' = index
           ELSE /\ ret'.kind = "true"
                /\ AddsOneLive(queue, queue', body)
                /\ AddsOneEntry(index, index', dedupKey)]_vars

\* C13: every send, receive and ack call has committed or aborted the write
\* transaction it opened by the time it returns or throws, so no write
\* transaction is open after an engine call.
C13_NoOpenWriteTxn ==
  [][(call'.op \in {"send", "receive", "ack"} /\ ~writeTxn) => ~writeTxn']_vars

\* C18: every successful send() stores its message under id = (highest live
\* id) + 1, or 1 when the live partition is empty, whatever the dead-letter
\* partition contains: the id is >= 1, the key equals the id field, and
\* nothing is written at a key <= 0.
C18_SendIdFromLivePartition ==
  [][(call'.op = "send" /\ ret'.kind = "true") =>
       LET id == IF LiveKeys(queue) = {} THEN 1 ELSE Max(LiveKeys(queue)) + 1
       IN /\ id >= 1
          /\ DOMAIN queue' = DOMAIN queue \cup {id}
          /\ JSONparse(queue'[id]).id = id
          /\ \A k \in DOMAIN queue : queue'[k] = queue[k]]_vars

\* C19: the dead-letter transition is a move: no message is stored under two
\* keys, and a record that goes from key id to the dead-letter partition is
\* stored at -id with only its id field negated.  Over every operation a
\* stored message keeps its enqueued, its numReceives does not decrease, and
\* received > 0 implies numReceives >= 1.
C19_DeadLetterIsMove ==
  [][/\ \A k1, k2 \in DOMAIN queue' :
          queue'[k1].sn = queue'[k2].sn => k1 = k2
     /\ \A k \in LiveKeys(queue), d \in DeadKeys(queue') :
          queue'[d].sn = queue[k].sn =>
            /\ d = -k
            /\ JSONparse(queue'[d]) = [JSONparse(queue[k]) EXCEPT !.id = -k]
     /\ \A k \in DOMAIN queue, k1 \in DOMAIN queue' :
          queue'[k1].sn = queue[k].sn =>
            /\ queue'[k1].enqueued = queue[k].enqueued
            /\ queue'[k1].numReceives >= queue[k].numReceives
     /\ \A k \in DOMAIN queue' :
          queue'[k].received > 0 => queue'[k].numReceives >= 1
     /\ ret'.kind = "message" =>
          (The(ret'.message).received > 0 /\ The(ret'.message).numReceives >= 1)
    ]_vars

\* A receive() has just moved a message to the dead-letter partition.
C19_Witness ==
  /\ call.op = "receive" /\ ret.kind = "null"
  /\ DeadKeys(queue) # {}
  /\ \E d \in DeadKeys(queue) :
       JSONparse(queue[d]).id = d /\ JSONparse(queue[d]).numReceives >= 1

\* C20: a record once stored in the dead-letter partition stays there
\* unchanged: no dead-letter transition writes to a key that already holds
\* a dead letter, and send, receive and ack neither delete nor overwrite a
\* key < 0.
C20_DeadLettersKept ==
  [][\A d \in DeadKeys(queue) : hasKey(queue', d) /\ queue'[d] = queue[d]]_vars

\* The size of a key as the store gets it: the bytes of a Buffer, two bytes
\* for each UTF-16 code unit of a string.
EncodedSize(key) == IF key.type = "string" THEN key.length * 2 ELSE key.length
OverLimit(key) == EncodedSize(key) > MAX_KEY_SIZE

\* C14: a get, put or del call on a Transaction with a key over the size
\* limit fails without reaching the store and changes nothing; a send() on
\* a queue with dedup whose dedup key (the body, when no dedupKey is given)
\* is over the limit throws, and neither the queue table nor the dedup
\* index changes.
C14_KeySizeFailsFirst ==
  [][/\ \A key \in Keys :
          (tcall'.op \in Kinds /\ tcall'.key = Some(key) /\ OverLimit(key)) =>
            /\ tcall'.outcome = "error"
            /\ ~tcall'.reached
            /\ txns' = txns
            /\ data' = data
     /\ \A body \in KeySizeBodies :
          (/\ call' = Call("send", Some(body), Undefined, Undefined)
           /\ config.dedup
           /\ OverLimit(StringKey(body))) =>
            /\ ret'.kind = "throw"
            /\ queue' = queue
            /\ index' = index]_vars

\* A call with an oversize key has failed on a writeable Transaction that
\* is open, and a send() of an oversize body has thrown with its write
\* transaction begun.
C14_Witness ==
  /\ tcall.op \in Kinds
  /\ tcall.key # Undefined /\ OverLimit(The(tcall.key))
  /\ tcall.outcome = "error"
  /\ txns[tcall.txn].isWriteable /\ txns[tcall.txn].txn = "active"
  /\ call = Call("send", Some(LongBody), Undefined, Undefined)
  /\ ret.kind = "throw"
  /\ writeTxn

TableOps == {TableOp(kind) : kind \in Kinds}

\* C15: a Table call made without a transaction leaves every Transaction
\* of the caller as it was and closes the one temporary Transaction it
\* created, by commit when that one is writeable and the callback returned
\* and by abort otherwise; a Table call made with a transaction creates
\* none and neither commits nor aborts the one it was given, whether the
\* callback returns or throws.
C15_ClosesOwnTransactionOnly ==
  [][tcall'.op \in TableOps =>
       IF tcall'.txn = 0
         THEN /\ txns' = txns
              /\ tcall'.useTxn = Undefined => (WriterOpen /\ tcall'.op # "Table.get")
              /\ tcall'.useTxn # Undefined =>
                   LET useTxn == The(tcall'.useTxn) IN
                   /\ useTxn.isClosed
                   /\ useTxn.txn = IF useTxn.isWriteable /\ tcall'.outcome = "ok"
                                     THEN "committed" ELSE "aborted"
                   /\ data' = IF useTxn.txn = "committed" THEN useTxn.view ELSE data
         ELSE /\ tcall'.useTxn = Undefined
              /\ Len(txns') = Len(txns)
              /\ txns'[tcall'.txn].isClosed = txns[tcall'.txn].isClosed
              /\ txns'[tcall'.txn].txn = txns[tcall'.txn].txn
              /\ \A j \in 1..Len(txns) : j # tcall'.txn => txns'[j] = txns[j]
              /\ data' = data]_vars

\* The callback of a Table call has thrown on the Transaction the caller
\* supplied, which is still open.
C15_Witness ==
  /\ tcall.op \in TableOps
  /\ tcall.txn # 0
  /\ tcall.outcome = "error"
  /\ txns[tcall.txn].txn = "active" /\ ~txns[tcall.txn].isClosed

\* C16: on a Transaction whose store transaction is committed, aborted or
\* reset, every get, put and del fails without reaching the store; so does
\* a put or del on a read-only Transaction; a committed or aborted
\* Transaction is flagged closed and a reset one reset; renew() of a reset
\* Transaction succeeds and reads are accepted after it; and a committed or
\* aborted Transaction stays so, whatever is called on it.
C16_ClosedTransactionRejects ==
  [][\A i \in 1..Len(txns) :
       /\ (/\ tcall'.op \in Kinds /\ tcall'.txn = i
           /\ txns[i].txn \in {"committed", "aborted", "reset"}) =>
            /\ tcall'.outcome = "error" /\ ~tcall'.reached
            /\ txns' = txns /\ data' = data
       /\ (/\ tcall'.op \in {"put", "del"} /\ tcall'.txn = i
           /\ ~txns[i].isWriteable) =>
            /\ tcall'.outcome = "error" /\ ~tcall'.reached
            /\ txns' = txns /\ data' = data
       /\ (tcall'.op = "renew" /\ tcall'.txn = i /\ txns[i].txn = "reset") =>
            /\ tcall'.outcome = "ok"
            /\ \A key \in TxnKeys : get(txns'[i], key).outcome = "ok"
       /\ txns[i].txn \in {"committed", "aborted"} =>
            /\ txns'[i].txn = txns[i].txn
            /\ txns'[i].isClosed
            /\ \A key \in TxnKeys : get(txns'[i], key).outcome = "error"
       /\ txns'[i].txn = "reset" => txns'[i].isReset]_vars

\* A get, put or del has failed on a Transaction that was reset and not
\* renewed.
C16_Witness ==
  /\ tcall.op \in Kinds
  /\ tcall.outcome = "error" /\ ~tcall.reached
  /\ txns[tcall.txn].txn = "reset"

\* C17: at most one Database of the path is open, every open Database is
\* the one the registry holds for the path, and the registry holds no
\* closed Database.
C17_OneOpenHandle ==
  /\ Cardinality({h \in 1..Len(envs) : envs[h] = "open"}) <= 1
  /\ \A h \in 1..Len(envs) : envs[h] = "open" => dbs = Some(h)
  /\ dbs # Undefined => envs[The(dbs)] = "open"
====
